---- MODULE Spec2Model ----
(***************************************************************************)
(* Process handle (Cmd) of node.exec: lifecycle state machine, completion  *)
(* promise, wait/kill timeouts and signal delivery; the pipes of a spawned *)
(* process with output(); and the StreamReader over a Readable.            *)
(*                                                                         *)
(* One step of the model is one JavaScript macrotask: a call made by the   *)
(* caller, a timer callback, or an event emitted by the child process,     *)
(* together with the promise reactions (microtasks) that the library has   *)
(* registered and that run before the next macrotask.                      *)
(***************************************************************************)
EXTENDS Integers, Sequences, FiniteSets, TLC

VARIABLES
    process,    \* Cmd.process: index into procs, 0 = null
    promise,    \* Cmd.promise: index into futures
    running,    \* Cmd.running
    pid,        \* Cmd.pid
    exitCode,   \* Cmd.exitCode
    stdout,     \* Cmd.stdout policy
    stderr,     \* Cmd.stderr policy
    procs,      \* the ChildProcess records spawned so far, with the OS process behind each
    futures,    \* every promise ever stored in Cmd.promise
    calls,      \* the promises returned by run/wait/output/kill
    sent,       \* log of signal deliveries attempted at the platform
    ret,        \* outcome of the last synchronous call (start, signal, or a throw)
    ops,        \* number of calls the caller has made
    stdin,      \* Cmd.stdin policy
    extraFiles, \* Cmd.extraFiles policies (fd 3 and up)
    cmdio,      \* what the last successful start() returned
    stdio,      \* per ChildProcess with a stdout or stderr pipe: those streams and
                \* what output() captured from them
    pstdin,     \* descriptor 0 of the process of the last successful start()
    source,     \* the data source under a Readable given to createReader, or
                \* the bytes of a Buffer given as Cmd.stdin
    stream,     \* that Readable
    reader,     \* the StreamReader made from it
    reads       \* the read() calls made on the reader

vars == <<process, promise, running, pid, exitCode, stdout, stderr,
          procs, futures, calls, sent, ret, ops,
          stdin, extraFiles, cmdio, stdio, pstdin, source, stream, reader, reads>>

ioVars == <<stdin, extraFiles, cmdio, stdio, pstdin>>
readerVars == <<source, stream, reader, reads>>

----------------------------------------------------------------------------
(* Bounds of the model *)

MaxOps == 2         \* calls made by the caller (start, run, output, wait, signal, kill)
MaxBytes == 2       \* bytes a child process writes to one of its output descriptors
MaxExtra == 1       \* entries of Cmd.extraFiles
MaxSrc == 3         \* bytes of the source under a Reader
MaxReads == 2       \* read() calls made on a Reader
MaxCloses == 2      \* close() calls made on a Reader

(* Program constants *)

NoExitCode == -1            \* exitCode before exit
DefaultKillTimeout == 500   \* kill(sig, timeout = 500)
SIGKILL_NUM == 9            \* os.constants.signals.SIGKILL
SIGTERM_NUM == 15           \* os.constants.signals.SIGTERM

Absent == "absent"          \* a signal or mode argument that was not passed (undefined)
NoTimeout == << >>          \* a timeout argument that was not passed; <<t>> is timeout t
Signals == {"SIGTERM", "SIGKILL"}
Unsupported == "SIGINFO"    \* a signal name the platform does not have
AllSignals == Signals \cup {Unsupported}
ForeignSignal == "SIGRTMIN" \* a signal name that os.constants.signals does not list
Modes == {"standard", "group"}
Timeouts == {NoTimeout, <<-1>>, <<0>>, <<100>>}
ExitCodes == {0, 1}

NOT_STARTED_ERROR == "process not started"
ALREADY_RUNNING == "start() called while command is running"
SPAWN_FAILURE == "failed to spawn process"
TIMEOUT == "Cmd.wait timeout"
NON_ZERO_EXIT == "command exited with status"
KILL_EPERM == "kill EPERM"  \* the 'error' event a ChildProcess emits when kill(2) is refused
UNKNOWN_SIGNAL == "Unknown signal"  \* thrown by process.kill and ChildProcess.kill

----------------------------------------------------------------------------
(* Promises *)

Pending == [st |-> "pending", code |-> 0, err |-> ""]
Resolved(c) == [st |-> "resolved", code |-> c, err |-> ""]
Rejected(e) == [st |-> "rejected", code |-> 0, err |-> e]

\* ChildProcess.pid of the p-th process spawned: the platform gives a spawned
\* process a pid above 1, and no two of them the same
PidOf(p) == p + 1

\* -(p.pid || 1), the target of a delivery to the process group
GroupTarget(pidv) == -(IF pidv # 0 THEN pidv ELSE 1)

\* os.constants.signals[signal]
SignalNumber(sig) ==
    CASE sig = "SIGKILL" -> SIGKILL_NUM
      [] sig = "SIGTERM" -> SIGTERM_NUM
      [] OTHER -> 0

\* A result cell without test-and-set: the last settlement wins.
SettleFuture_LastWins(fs, k, outcome) == [fs EXCEPT ![k] = outcome]

\* this._resolve / this._reject of promise k: the first settlement wins
SettleFuture(fs, k, outcome) ==
    IF fs[k].st = "pending" THEN [fs EXCEPT ![k] = outcome] ELSE fs

----------------------------------------------------------------------------
(* Calls: the promise that run/wait/output/kill returned to the caller.     *)
(*   op     "run" | "wait" | "output" | "kill"                              *)
(*   via    how the returned promise gets its value:                        *)
(*            "direct"  settled by the call itself                          *)
(*            "promise" it is (or adopts) this.promise                      *)
(*            "timeout" it was built by _waitTimeout                        *)
(*   fut    this.promise when the call was made; for a kill whose timer has *)
(*          fired, this.promise when it fired                               *)
(*   proc   the ChildProcess kill() captured (0: none)                      *)
(*   timer  "none" | "armed" | "fired" | "cleared"                          *)
(*   parent the wait-like call whose timeout handler made this kill (0: the *)
(*          caller made it)                                                 *)
(*   sig    wait's timeoutSignal / kill's sig                               *)
(*   running  this.running when the call was made                           *)
(*   res    state of the returned promise                                   *)

NewCall(op, via, h, parent, sig) ==
    [op |-> op, via |-> via, fut |-> h.promise,
     proc |-> IF op = "kill" THEN h.process ELSE 0,
     timer |-> IF via = "timeout" THEN "armed" ELSE "none",
     parent |-> parent, sig |-> sig, running |-> h.running, res |-> Pending]

\* output() that takes only a positive exit status for a failure.
Finish_OnlyPositive(c, outcome) ==
    IF c.op = "output" /\ outcome.st = "resolved" /\ outcome.code > 0
    THEN [st |-> "rejected", code |-> outcome.code, err |-> NON_ZERO_EXIT]
    ELSE outcome

\* The value a call's promise takes when the promise it follows settles with
\* `outcome`; output() maps a non-zero exit status to a failure.
Finish(c, outcome) ==
    IF c.op = "output" /\ outcome.st = "resolved" /\ outcome.code # 0
    THEN [st |-> "rejected", code |-> outcome.code, err |-> NON_ZERO_EXIT]
    ELSE outcome

\* _waitTimeout without the timeoutOccured flag: the exit of the process
\* resolves the returned promise even after the timer has fired.
ReactOne_NoTimeoutFlag(c, fs, k) ==
    IF c.fut # k \/ c.res.st # "pending" \/ fs[k].st = "pending" THEN c
    ELSE IF c.via = "promise" THEN [c EXCEPT !.res = Finish(c, fs[k])]
    ELSE IF c.timer \in {"armed", "fired"} /\ fs[k].st = "resolved"
         THEN [c EXCEPT !.timer = IF c.timer = "armed" THEN "cleared" ELSE c.timer,
                        !.res = Finish(c, fs[k])]
    ELSE IF c.timer = "armed" THEN [c EXCEPT !.timer = "cleared"]
    ELSE c

\* createTimeout without clearTimeout: the settlement of the promise leaves
\* the timer armed.
ReactOne_NoClearTimeout(c, fs, k) ==
    IF c.fut # k \/ c.res.st # "pending" \/ fs[k].st = "pending" THEN c
    ELSE IF c.via = "promise" THEN [c EXCEPT !.res = Finish(c, fs[k])]
    ELSE IF c.timer = "armed"
         THEN IF fs[k].st = "resolved"
              THEN [c EXCEPT !.res = Finish(c, fs[k])]
              ELSE c
    ELSE IF c.timer = "fired" /\ c.op = "kill" /\ fs[k].st = "resolved"
         THEN [c EXCEPT !.res = fs[k]]
    ELSE c

\* Reactions of one call to the settlement of promise k.
ReactOne(c, fs, k) ==
    IF c.fut # k \/ c.res.st # "pending" \/ fs[k].st = "pending" THEN c
    ELSE IF c.via = "promise" THEN [c EXCEPT !.res = Finish(c, fs[k])]
    ELSE IF c.timer = "armed"
         THEN IF fs[k].st = "resolved"
              THEN [c EXCEPT !.timer = "cleared", !.res = Finish(c, fs[k])]
              ELSE [c EXCEPT !.timer = "cleared"]
    ELSE IF c.timer = "fired" /\ c.op = "kill" /\ fs[k].st = "resolved"
         THEN [c EXCEPT !.res = fs[k]]
    ELSE c

\* wait's timeout handler: this.kill(timeoutSignal).then(() => reject(err))
Cascade(cs) ==
    [i \in DOMAIN cs |->
        IF /\ cs[i].op # "kill"
           /\ cs[i].timer = "fired"
           /\ cs[i].res.st = "pending"
           /\ \E j \in DOMAIN cs : cs[j].parent = i /\ cs[j].res.st = "resolved"
        THEN [cs[i] EXCEPT !.res = Rejected(TIMEOUT)]
        ELSE cs[i]]

React(cs, fs, k) == Cascade([i \in DOMAIN cs |-> ReactOne(cs[i], fs, k)])

----------------------------------------------------------------------------
(* The world outside the handle fields, threaded through one macrotask *)

World == [procs |-> procs, futures |-> futures, calls |-> calls, sent |-> sent]
Handle == [process |-> process, promise |-> promise, running |-> running,
           pid |-> pid, exitCode |-> exitCode]

ResolveW(w, k, c) ==
    LET fs == SettleFuture(w.futures, k, Resolved(c))
    IN [w EXCEPT !.futures = fs, !.calls = React(w.calls, fs, k)]

RejectW(w, k, e) ==
    LET fs == SettleFuture(w.futures, k, Rejected(e))
    IN [w EXCEPT !.futures = fs, !.calls = React(w.calls, fs, k)]

\* The operating system delivers sig to process p.
Deliver(ps, p, sig) ==
    IF ps[p].st = "alive" /\ (sig = "SIGKILL" \/ ~ps[p].ignores)
    THEN [ps EXCEPT ![p].st = "zombie", ![p].termSig = sig]
    ELSE ps

\* ChildProcess.exitCode || 0
PExitCodeOr0(ps, p) ==
    IF ps[p].st = "reaped" /\ ps[p].termSig = "" THEN ps[p].termCode ELSE 0

Sent(p, sig, to, ok, by) == [proc |-> p, sig |-> sig, to |-> to, ok |-> ok, by |-> by]

\* process.kill(-pid, sig) reaches every member of the process group of p: the
\* process itself while it exists, and the processes it forked. Those end.
DeliverGroup(ps, p, sig) ==
    LET led == IF ps[p].perm THEN Deliver(ps, p, sig) ELSE ps
    IN [led EXCEPT ![p].kids = FALSE]

\* signal() that goes on to the direct delivery after the group delivery
\* was accepted.
SignalW_NoReturnAfterGroup(w, p, sig, mode, by) ==
    LET ps == w.procs
        live == ps[p].st # "reaped"
        groupOk == mode = "group" /\ ((live /\ ps[p].perm) \/ ps[p].kids)
        afterGroup == IF groupOk THEN DeliverGroup(ps, p, sig) ELSE ps
        directOk == afterGroup[p].st # "reaped" /\ afterGroup[p].perm
        groupTry == IF mode = "group"
                    THEN <<Sent(p, sig, GroupTarget(PidOf(p)), groupOk, by)>>
                    ELSE <<>>
        w1 == [w EXCEPT
                  !.procs = IF directOk THEN Deliver(afterGroup, p, sig) ELSE afterGroup,
                  !.sent = w.sent \o groupTry
                                  \o <<Sent(p, sig, PidOf(p), directOk, by)>>]
    IN IF sig = Unsupported
       THEN [ret |-> FALSE, thrown |-> UNKNOWN_SIGNAL, w |-> w]
       ELSE [ret |-> groupOk \/ directOk, thrown |-> "",
             w |-> IF live /\ ~ps[p].perm
                   THEN RejectW(w1, ps[p].fut, KILL_EPERM)
                   ELSE w1]

\* Cmd.signal on ChildProcess p (after _checkproc). `by` is the kill call that
\* sends the signal, 0 for a signal() call of the caller. process.kill and
\* ChildProcess.kill both throw for a signal the platform does not have; signal()
\* catches the first and lets the second through.
SignalW(w, p, sig, mode, by) ==
    LET ps == w.procs
        live == ps[p].st # "reaped"
        groupOk == mode = "group" /\ ((live /\ ps[p].perm) \/ ps[p].kids)
        directOk == live /\ ps[p].perm
        groupTry == IF mode = "group"
                    THEN <<Sent(p, sig, GroupTarget(PidOf(p)), groupOk, by)>>
                    ELSE <<>>
    IN IF sig = Unsupported
       THEN [ret |-> FALSE, thrown |-> UNKNOWN_SIGNAL, w |-> w]
       ELSE IF groupOk
       THEN [ret |-> TRUE, thrown |-> "",
             w |-> [w EXCEPT !.procs = DeliverGroup(ps, p, sig),
                             !.sent = w.sent \o groupTry]]
       ELSE LET w1 == [w EXCEPT
                          !.procs = IF directOk THEN Deliver(ps, p, sig) ELSE ps,
                          !.sent = w.sent \o groupTry
                                       \o <<Sent(p, sig, PidOf(p), directOk, by)>>]
            IN [ret |-> directOk, thrown |-> "",
                w |-> IF live /\ ~ps[p].perm
                      THEN RejectW(w1, ps[p].fut, KILL_EPERM)
                      ELSE w1]

AddCall(w, c) ==
    LET cs == Append(w.calls, c)
    IN [w EXCEPT !.calls = React(cs, w.futures, c.fut)]

\* Cmd.kill
KillW(w, h, sig, timeout, mode, parent) ==
    LET sigv == IF sig = Absent THEN "SIGTERM" ELSE sig
        tv == IF timeout = NoTimeout THEN DefaultKillTimeout ELSE timeout[1]
        mv == IF mode = Absent THEN "group" ELSE mode
        id == Len(w.calls) + 1
        direct == NewCall("kill", "direct", h, parent, sigv)
    IN IF h.process = 0
       THEN AddCall(w, [direct EXCEPT !.res = Rejected(NOT_STARTED_ERROR)])
       ELSE LET s == SignalW(w, h.process, sigv, mv, id)
            IN IF s.thrown # ""
               THEN AddCall(s.w, [direct EXCEPT !.res = Rejected(s.thrown)])
               ELSE IF ~s.ret
               THEN AddCall(s.w, [direct EXCEPT
                                    !.res = Resolved(PExitCodeOr0(s.w.procs, h.process))])
               ELSE IF tv <= 0
               THEN AddCall(s.w, NewCall("kill", "promise", h, parent, sigv))
               ELSE AddCall(s.w, NewCall("kill", "timeout", h, parent, sigv))

\* Cmd.wait (run and output return the promise of their wait call)
WaitW(w, h, op, timeout, sig) ==
    IF timeout = NoTimeout \/ timeout[1] <= 0
    THEN AddCall(w, NewCall(op, "promise", h, 0, sig))
    ELSE AddCall(w, NewCall(op, "timeout", h, 0, sig))

\* start() without the check of the running flag.
StartF_NoRunningCheck(h, w, spawnOk, ignores) ==
    LET k == Len(w.futures) + 1
        h1 == [h EXCEPT !.exitCode = NoExitCode, !.promise = k]
        w1 == [w EXCEPT !.futures = Append(w.futures, Pending)]
        p == Len(w.procs) + 1
    IN IF ~spawnOk
       THEN [h |-> [h1 EXCEPT !.process = 0, !.pid = 0],
             w |-> RejectW(w1, k, SPAWN_FAILURE),
             thrown |-> SPAWN_FAILURE]
       ELSE [h |-> [h1 EXCEPT !.running = TRUE, !.process = p, !.pid = PidOf(p)],
             w |-> [w1 EXCEPT !.procs = Append(w.procs,
                       [st |-> "alive", ignores |-> ignores, perm |-> TRUE,
                        fut |-> k, termCode |-> 0, termSig |-> "", kids |-> FALSE])],
             thrown |-> ""]

\* start() that resets the exit code and replaces the promise before it checks
\* the running flag.
StartF_ResetFirst(h, w, spawnOk, ignores) ==
    IF h.running
    THEN [h |-> [h EXCEPT !.exitCode = NoExitCode, !.promise = Len(w.futures) + 1],
          w |-> [w EXCEPT !.futures = Append(w.futures, Pending)],
          thrown |-> ALREADY_RUNNING]
    ELSE StartF_NoRunningCheck(h, w, spawnOk, ignores)

\* start() that stores the ChildProcess before it looks at its pid: after a
\* failed spawn the handle keeps a process record, one that never ran.
StartF_RecordsFailedProcess(h, w, spawnOk, ignores) ==
    IF h.running
    THEN [h |-> h, w |-> w, thrown |-> ALREADY_RUNNING]
    ELSE LET s == StartF_NoRunningCheck(h, w, spawnOk, ignores)
             p == Len(w.procs) + 1
         IN IF spawnOk THEN s
            ELSE [h |-> [s.h EXCEPT !.process = p],
                  w |-> [s.w EXCEPT !.procs = Append(w.procs,
                            [st |-> "reaped", ignores |-> FALSE, perm |-> FALSE,
                             fut |-> s.h.promise, termCode |-> 0, termSig |-> "",
                             kids |-> FALSE])],
                  thrown |-> SPAWN_FAILURE]

\* start() that leaves the exit code of the previous run in place.
StartF_KeepsExitCode(h, w, spawnOk, ignores) ==
    LET s == StartF_NoRunningCheck(h, w, spawnOk, ignores)
    IN IF h.running
       THEN [h |-> h, w |-> w, thrown |-> ALREADY_RUNNING]
       ELSE [s EXCEPT !.h.exitCode = h.exitCode]

\* start() that throws on a spawn failure without rejecting the new promise.
StartF_FailureLeavesPending(h, w, spawnOk, ignores) ==
    LET s == StartF_NoRunningCheck(h, w, spawnOk, ignores)
    IN IF h.running
       THEN [h |-> h, w |-> w, thrown |-> ALREADY_RUNNING]
       ELSE IF spawnOk THEN s
       ELSE [s EXCEPT !.w.futures[Len(w.futures) + 1] = Pending]

\* Cmd.start; spawnOk is whether spawn() produced a pid, ignores whether the
\* spawned program ignores catchable signals.
StartF(h, w, spawnOk, ignores) ==
    IF h.running
    THEN [h |-> h, w |-> w, thrown |-> ALREADY_RUNNING]
    ELSE LET k == Len(w.futures) + 1
             h1 == [h EXCEPT !.exitCode = NoExitCode, !.promise = k]
             w1 == [w EXCEPT !.futures = Append(w.futures, Pending)]
             p == Len(w.procs) + 1
         IN IF ~spawnOk
            THEN [h |-> [h1 EXCEPT !.process = 0, !.pid = 0],
                  w |-> RejectW(w1, k, SPAWN_FAILURE),
                  thrown |-> SPAWN_FAILURE]
            ELSE [h |-> [h1 EXCEPT !.running = TRUE, !.process = p, !.pid = PidOf(p)],
                  w |-> [w1 EXCEPT !.procs = Append(w.procs,
                            [st |-> "alive", ignores |-> ignores, perm |-> TRUE,
                             fut |-> k, termCode |-> 0, termSig |-> "", kids |-> FALSE])],
                  thrown |-> ""]

\* The ChildProcess record once the exit of its process has been collected: the
\* operating-system process, with its signal dispositions and credentials, is
\* gone; the processes it forked stay in its process group.
Reaped(pr) == [pr EXCEPT !.st = "reaped", !.ignores = FALSE, !.perm = FALSE]

\* _onexit with -1 for every termination by signal, as the comment on
\* Cmd.exitCode has it.
ExitStatus_SignalIsMinusOne(code, signal) ==
    IF signal # "" THEN -1 ELSE code

\* The exit code _onexit computes from the (code, signal) of the 'exit' event;
\* signal "" stands for null, and code is a number whenever signal is null.
ExitStatus(code, signal) ==
    IF signal # ""
    THEN -(IF SignalNumber(signal) # 0 THEN SignalNumber(signal) ELSE 1)
    ELSE code

\* Cmd._onexit(code, signal)
OnExitF(h, w, code, signal) ==
    LET ec == ExitStatus(code, signal)
    IN [h |-> [h EXCEPT !.running = FALSE, !.exitCode = ec],
        w |-> ResolveW(w, h.promise, ec)]

----------------------------------------------------------------------------
(* Readable streams (Node.js stream.Readable in paused and flowing mode)    *)
(*   flowing   readableFlowing: "null" | "false" | "true"                   *)
(*   buf       the chunks in the internal buffer, oldest first              *)
(*   ended     the source has signalled end-of-file (push(null))            *)
(*   endPending  endReadable() has scheduled the 'end' event                *)
(*   endEmitted  'end' has been emitted                                     *)
(*   destroyed   destroy() has been called                                  *)
(*   listener    a 'data' listener is attached                              *)

NewReadable ==
    [flowing |-> "null", buf |-> << >>, ended |-> FALSE, endPending |-> FALSE,
     endEmitted |-> FALSE, destroyed |-> FALSE, listener |-> FALSE]

\* readable.pause()
Pause(st) == [st EXCEPT !.flowing = "false"]

\* readable.on('data', listener): starts the flow unless the stream was paused
\* explicitly
OnData(st) ==
    [st EXCEPT !.listener = TRUE,
               !.flowing = IF @ = "false" THEN "false" ELSE "true"]

\* readable.readable
IsReadable(st) == ~st.destroyed /\ ~st.endEmitted

\* readable.destroy()
Destroy(st) == [st EXCEPT !.destroyed = TRUE]

\* endReadable(stream): 'end' is emitted on the next tick
EndReadable(st) == IF st.endEmitted THEN st ELSE [st EXCEPT !.endPending = TRUE]

RECURSIVE Concat(_)
\* Buffer.concat(bufs)
Concat(bufs) == IF bufs = << >> THEN << >> ELSE Head(bufs) \o Concat(Tail(bufs))

All == -1   \* readable.read() without a size

\* howMuchToRead(n, state) of a stream that is not flowing; len is state.length
HowMuchToRead(st, len, n) ==
    IF len = 0 /\ st.ended THEN 0
    ELSE IF n = All THEN len
    ELSE IF n <= len THEN n
    ELSE IF st.ended THEN len ELSE 0

\* readable.read(n) on a paused stream: data << >> stands for null
StreamRead(st, n) ==
    LET bytes == Concat(st.buf)
        len == Len(bytes)
        m == HowMuchToRead(st, len, n)
        rest == [st EXCEPT !.buf = IF m = len THEN << >>
                                   ELSE <<SubSeq(bytes, m + 1, len)>>]
    IN IF m = 0
       THEN [data |-> << >>,
             st |-> IF st.ended /\ len = 0 THEN EndReadable(st) ELSE st]
       ELSE [data |-> SubSeq(bytes, 1, m),
             st |-> IF m = len /\ st.ended /\ n # m THEN EndReadable(rest) ELSE rest]

\* readable.push(chunk) from the source: a flowing stream with nothing buffered
\* hands the chunk to its 'data' listeners, any other stream buffers it
AddChunk(st, chunk) ==
    IF st.flowing = "true" /\ st.buf = << >>
    THEN [st |-> st, emitted |-> <<chunk>>]
    ELSE [st |-> [st EXCEPT !.buf = Append(@, chunk)], emitted |-> << >>]

\* readable.resume() followed by flow(): the buffered chunks are emitted one by
\* one
Resume(st) ==
    [st |-> [st EXCEPT !.flowing = "true", !.buf = << >>], emitted |-> st.buf]

----------------------------------------------------------------------------
(* DataBuffer *)

createDataBuffer == [data |-> << >>, offset |-> 0]

\* DataBuffer.write(b)
DataBufferWrite(db, b) ==
    [data |-> Append(db.data, b), offset |-> db.offset + Len(b)]

\* buffersJoin(bufs, totalLength); Buffer.concat cuts the result at totalLength
buffersJoin(bufs, totalLength) ==
    IF Len(bufs) = 0 THEN << >>
    ELSE IF Len(bufs) = 1 THEN bufs[1]
    ELSE SubSeq(Concat(bufs), 1, totalLength)

\* DataBuffer.buffer()
DataBufferBuffer(db) == buffersJoin(db.data, db.offset)

----------------------------------------------------------------------------
(* StreamReader                                                             *)
(*   reader.ended   this.ended                                              *)
(*   reader.closed  close() has destroyed the stream                        *)
(*   reader.closes  number of close() calls made                            *)
(* A read() call:                                                           *)
(*   size        the size it reads up to                                    *)
(*   ended       this.ended when the call was made                          *)
(*   closed      reader.closed when the call was made                       *)
(*   buffers, buffersLen  the local variables of read()                     *)
(*   st          "waiting" (suspended in the loop) | "done"                 *)
(*   out         the buffer the call returned                               *)

\* Number.MAX_SAFE_INTEGER, the size of a read() without a size; here the
\* largest integer TLC has
MAX_SAFE_INTEGER == 2147483647

\* The bytes of a source of n bytes
SourceBytes(n) == [b \in 1..n |-> b]

Returns(c, buf) == [c EXCEPT !.st = "done", !.out = buf]

\* buffers.push(buf); buffersLen += buf.length, when buf is not null
Keep(c, data) ==
    IF data = << >> THEN c
    ELSE [c EXCEPT !.buffers = Append(@, data), !.buffersLen = @ + Len(data)]

\* The test of the loop of read() (command.ts 486) and, when it fails, the
\* return of the joined buffers; Buffer.concat without a length takes the sum
\* of the lengths, which is buffersLen.
LoopTest(rd, c) ==
    IF c.buffersLen < c.size /\ ~rd.ended
    THEN [c EXCEPT !.st = "waiting"]
    ELSE Returns(c, buffersJoin(c.buffers, c.buffersLen))

\* The loop of read() with `size` for `size - buffersLen`.
LoopBody_ReadsSize(st, rd, c) ==
    LET r1 == StreamRead(st, c.size)
        r2 == IF r1.data = << >> THEN StreamRead(r1.st, All) ELSE r1
    IN [stream |-> r2.st, reader |-> rd, c |-> LoopTest(rd, Keep(c, r2.data))]

\* The loop of read() leaving as soon as it holds any byte.
LoopBody_UntilAnyByte(st, rd, c) ==
    LET r1 == StreamRead(st, c.size - c.buffersLen)
        r2 == IF r1.data = << >> THEN StreamRead(r1.st, All) ELSE r1
        c2 == Keep(c, r2.data)
    IN [stream |-> r2.st, reader |-> rd,
        c |-> IF c2.buffersLen = 0 /\ ~rd.ended
              THEN [c2 EXCEPT !.st = "waiting"]
              ELSE Returns(c2, buffersJoin(c2.buffers, c2.buffersLen))]

\* One turn of the loop of read() after the awaited event (command.ts 493-504)
LoopBody(st, rd, c) ==
    LET r1 == StreamRead(st, c.size - c.buffersLen)
        r2 == IF r1.data = << >> THEN StreamRead(r1.st, All) ELSE r1
    IN [stream |-> r2.st, reader |-> rd, c |-> LoopTest(rd, Keep(c, r2.data))]

\* 'end' listener of the constructor that does not destroy the stream.
OnEnd_NoDestroy(st, rd) ==
    [stream |-> st, reader |-> [rd EXCEPT !.ended = TRUE]]

\* The 'end' listener of the constructor (command.ts 435-440)
OnEnd(st, rd) ==
    [stream |-> IF ~st.destroyed THEN Destroy(st) ELSE st,
     reader |-> [rd EXCEPT !.ended = TRUE]]

\* endReadableNT: the stream emits 'end' when nothing is buffered
EmitEnd(st, rd) ==
    OnEnd([st EXCEPT !.endPending = FALSE, !.endEmitted = TRUE], rd)

\* read() up to its first await (command.ts 450-486), on a stream st
ReadSync(st, rd, size, c) ==
    IF rd.ended
    THEN LET r == IF IsReadable(st) THEN StreamRead(st, size)
                  ELSE [data |-> << >>, st |-> st]
         IN [stream |-> r.st, reader |-> rd, c |-> Returns(c, r.data)]
    ELSE LET r == IF IsReadable(st) THEN StreamRead(st, size)
                  ELSE [data |-> << >>, st |-> st]
         IN [stream |-> r.st, reader |-> rd, c |-> LoopTest(rd, Keep(c, r.data))]

\* What runs before the next macrotask when read call c may be suspended on
\* the stream: 'readable', if it is emitted, wakes the call for one turn of its
\* loop; 'end', if a read has scheduled it, runs the listener of the
\* constructor and then wakes the call.
Quiesce(R, readable) ==
    LET a == IF R.c.st = "waiting" /\ readable
             THEN LoopBody(R.stream, R.reader, R.c)
             ELSE R
    IN IF a.stream.endPending /\ ~a.stream.endEmitted /\ a.stream.buf = << >>
       THEN LET e == EmitEnd(a.stream, a.reader)
            IN IF a.c.st = "waiting"
               THEN LoopBody(e.stream, e.reader, a.c)
               ELSE [stream |-> e.stream, reader |-> e.reader, c |-> a.c]
       ELSE a

NewRead(size, rd) ==
    [size |-> size, ended |-> rd.ended, closed |-> rd.closed,
     buffers |-> << >>, buffersLen |-> 0, st |-> "new", out |-> << >>]

\* The read call that is suspended (0: none)
Waiting(rs) ==
    IF \E i \in DOMAIN rs : rs[i].st = "waiting"
    THEN CHOOSE i \in DOMAIN rs : rs[i].st = "waiting"
    ELSE 0

----------------------------------------------------------------------------
(* The descriptors of a spawned process *)

\* Cmd.stdin: null, 'inherit', 'pipe', a Buffer, a Readable ("stream"), or a
\* Reader; of a Reader, what `typeof reader.stream.fd` is:
\*   "reader"     a stream without a descriptor of its own (fd undefined or
\*                null: a PassThrough, a file stream before it is opened)
\*   "fdreader"   a descriptor-like stream (fd is a number: process.stdin, an
\*                open file stream)
\*   "sfdreader"  a stream whose fd holds a string
StdinPolicies ==
    {"null", "inherit", "pipe", "buffer", "reader", "fdreader", "sfdreader", "stream"}

\* typeof (this.stdin.stream as any).fd, for a Reader
TypeofFd(pol) ==
    CASE pol = "fdreader" -> "number"
      [] pol = "sfdreader" -> "string"
      [] OTHER -> "undefined"

\* stdinStreamNeedsPiping is set
NeedsPiping(pol) ==
    pol \in {"reader", "fdreader", "sfdreader"} /\ TypeofFd(pol) # "string"
OutPolicies == {"null", "inherit", "pipe", "stream"}
ExtraPolicies == {"null", "pipe", "stream"}

\* spawnOptions.stdio[0]: a Buffer becomes a pipe, and so does a Reader unless
\* the fd of its stream is a string, which hands the stream itself to spawn
StdinOf(pol) ==
    CASE pol = "buffer" -> "pipe"
      [] NeedsPiping(pol) -> "pipe"
      [] pol = "sfdreader" -> "stream"
      [] pol = "null" -> "ignore"
      [] OTHER -> pol

\* spawnOptions.stdio[1], [2]
StdoutOf(pol) == IF pol = "null" THEN "ignore" ELSE pol

\* start() returns null
NoPipes ==
    [isNull |-> TRUE, stdin |-> "null", stdout |-> "null", stderr |-> "null",
     extraFiles |-> << >>]

\* What start() returns after a successful spawn. p.stdin, p.stdout and
\* p.stderr exist for the descriptors spawned as 'pipe'; start() has set p.stdin
\* to null when it pipes a Buffer or a Reader into it; p.stdio has one entry per
\* descriptor, a stream for each 'pipe' and null for the others.
PipesOf(sin, sout, serr, extra) ==
    LET hasStdin == StdinOf(sin) = "pipe" /\ sin # "buffer" /\ ~NeedsPiping(sin)
        pstdout == StdoutOf(sout) = "pipe"
        pstderr == StdoutOf(serr) = "pipe"
        stdioLength == 3 + Len(extra)
    IN IF ~hasStdin /\ ~pstdout /\ ~pstderr /\ stdioLength < 4
       THEN NoPipes
       ELSE [isNull |-> FALSE,
             stdin |-> IF hasStdin THEN "Writer" ELSE "null",
             stdout |-> IF pstdout THEN "Reader" ELSE "null",
             stderr |-> IF pstderr THEN "Reader" ELSE "null",
             extraFiles |-> [i \in DOMAIN extra |->
                                IF extra[i] = "pipe" THEN "Reader" ELSE "null"]]

\* Descriptor 0 of a ChildProcess:
\*   how     "ignore" | "inherit" | "pipe" (the caller holds p.stdin) |
\*           "pumped" (start() pipes a stream into p.stdin) | "attached" (spawn
\*           was given the stream); "none" before the first process
\*   proc    the ChildProcess
\*   pipe    the bytes written to p.stdin that the process has not read yet
\*   closed  p.stdin has been ended, or descriptor 0 is the null device
\*   got     the bytes the process has read from descriptor 0
\*   eof     the process has read end-of-file from descriptor 0
NoStdin ==
    [how |-> "none", proc |-> 0, pipe |-> << >>, closed |-> FALSE,
     got |-> << >>, eof |-> FALSE]

\* What descriptor 0 of the new process is, from spawnOptions.stdio[0] and the
\* piping start() does after spawn
StdinHow(pol) ==
    CASE pol = "buffer" \/ NeedsPiping(pol) -> "pumped"
      [] StdinOf(pol) = "stream" -> "attached"
      [] OTHER -> StdinOf(pol)

\* r = new PassThrough(); r.end(buf); r.pipe(p.stdin): what p.stdin has been
\* written before the next macrotask. The PassThrough keeps no empty chunk.
PipeBuffer(buf) ==
    LET r == IF buf = << >> THEN NewReadable ELSE AddChunk(NewReadable, buf).st
    IN Concat(Resume(OnData([r EXCEPT !.ended = TRUE])).emitted)

\* start() after spawn (command.ts 124-135): descriptor 0 of process p under
\* policy pol, and the stream of the Reader, which pipe() sets flowing
WireStdin(pol, p, src, st) ==
    LET f == Resume(OnData(st))
        d == [NoStdin EXCEPT !.how = StdinHow(pol), !.proc = p]
    IN CASE pol = "buffer" ->
              [pstdin |-> [d EXCEPT !.pipe = PipeBuffer(src.left), !.closed = TRUE],
               stream |-> st]
         [] NeedsPiping(pol) ->
              [pstdin |-> [d EXCEPT !.pipe = Concat(f.emitted)], stream |-> f.st]
         [] OTHER ->
              [pstdin |-> [d EXCEPT !.closed = (StdinOf(pol) = "ignore")],
               stream |-> st]

\* The output side of a new ChildProcess:
\*   wrote      what the process has written to its stdout and stderr
\*   pipe       what of it the parent has not yet read from the pipe
\*   open       p.stdout / p.stderr is a stream (not null)
\*   stdout, stderr  those streams, paused by createReader
\*   capture    output() started the process
\*   stdoutBuf, stderrBuf  the DataBuffers of output()
\*   value      what the continuation of output() produced
NewStdio(sout, serr, capture) ==
    LET mk(pol) == IF StdoutOf(pol) = "pipe" THEN Pause(NewReadable) ELSE NewReadable
        listen(pol, st) == IF capture /\ StdoutOf(pol) = "pipe" THEN OnData(st) ELSE st
    IN [wrote |-> [stdout |-> << >>, stderr |-> << >>],
        pipe |-> [stdout |-> << >>, stderr |-> << >>],
        open |-> [stdout |-> StdoutOf(sout) = "pipe", stderr |-> StdoutOf(serr) = "pipe"],
        stdout |-> listen(sout, mk(sout)),
        stderr |-> listen(serr, mk(serr)),
        capture |-> capture,
        stdoutBuf |-> createDataBuffer,
        stderrBuf |-> createDataBuffer,
        value |-> [kind |-> "none", bytes |-> << >>]]

RECURSIVE OnChunks(_, _, _)
\* The chunks emitted as 'data' on descriptor fd reach the listener of output().
\* Once the continuation of output() has run nothing refers to the DataBuffers
\* any more, and they are left as they are.
OnChunks(io, fd, chunks) ==
    IF chunks = << >> \/ ~io.capture \/ io.value.kind # "none" THEN io
    ELSE OnChunks(IF fd = "stdout"
                  THEN [io EXCEPT !.stdoutBuf = DataBufferWrite(@, Head(chunks))]
                  ELSE [io EXCEPT !.stderrBuf = DataBufferWrite(@, Head(chunks))],
                  fd, Tail(chunks))

\* flushStdio(subprocess), which Node.js runs on the tick after 'exit': every
\* stdio stream that is still readable is resumed
FlushOne(io, fd) ==
    IF ~io.open[fd] \/ ~IsReadable(io[fd]) THEN io
    ELSE LET r == Resume(io[fd])
         IN OnChunks([io EXCEPT ![fd] = r.st], fd, r.emitted)

flushStdio(io) == FlushOne(FlushOne(io, "stdout"), "stderr")

\* The continuation of output() (command.ts 194-210) when its wait settles with
\* `res`: the text of the failure, or the captured stdout
OutputValue(io, res) ==
    IF res.st = "rejected" /\ res.err = NON_ZERO_EXIT
    THEN [kind |-> "error", bytes |-> DataBufferBuffer(io.stderrBuf)]
    ELSE IF res.st = "resolved"
    THEN [kind |-> "stdout", bytes |-> DataBufferBuffer(io.stdoutBuf)]
    ELSE io.value

\* The output() call that waits on promise k (0: none)
OutputCallOf(cs, k) ==
    IF \E i \in DOMAIN cs : cs[i].op = "output" /\ cs[i].fut = k
    THEN CHOOSE i \in DOMAIN cs : cs[i].op = "output" /\ cs[i].fut = k
    ELSE 0

----------------------------------------------------------------------------
(* State after `new Cmd(command, ...args)` *)

InitCmd ==
    /\ process = 0
    /\ promise = 1
    /\ running = FALSE
    /\ pid = 0
    /\ exitCode = NoExitCode
    /\ procs = << >>
    /\ futures = <<Rejected(NOT_STARTED_ERROR)>>
    /\ calls = << >>
    /\ sent = << >>
    /\ ret = [op |-> "new", err |-> "", val |-> FALSE]
    /\ ops = 0
    /\ cmdio = NoPipes
    /\ stdio = << >>
    /\ pstdin = NoStdin

\* No Reader has been made
InitNoReader ==
    /\ source = [size |-> 0, left |-> << >>, eof |-> TRUE]
    /\ stream = NewReadable
    /\ reader = [made |-> FALSE, ended |-> FALSE, closed |-> FALSE, closes |-> 0]
    /\ reads = << >>

Init ==
    /\ InitCmd
    /\ stdin = "null"
    /\ stdout = "null"
    /\ stderr = "null"
    /\ extraFiles = << >>
    /\ InitNoReader

\* The caller makes one more call.
Call ==
    /\ ops < MaxOps
    /\ ops' = ops + 1

SetHandle(h) ==
    /\ process' = h.process
    /\ promise' = h.promise
    /\ running' = h.running
    /\ pid' = h.pid
    /\ exitCode' = h.exitCode

SetWorld(w) ==
    /\ procs' = w.procs
    /\ futures' = w.futures
    /\ calls' = w.calls
    /\ sent' = w.sent

Returned(op, err, val) == ret' = [op |-> op, err |-> err, val |-> val]

\* What start() builds and returns once spawn() has produced a process; w is
\* the world after start(), sout and serr the policies it ran with.
StartIO(w, sout, serr, capture) ==
    IF Len(w.procs) > Len(procs)
    THEN /\ cmdio' = PipesOf(stdin, sout, serr, extraFiles)
         /\ stdio' = IF StdoutOf(sout) = "pipe" \/ StdoutOf(serr) = "pipe"
                     THEN [q \in DOMAIN stdio \cup {Len(w.procs)} |->
                             IF q \in DOMAIN stdio THEN stdio[q]
                             ELSE NewStdio(sout, serr, capture)]
                     ELSE stdio
         /\ LET wired == WireStdin(stdin, Len(w.procs), source, stream)
            IN /\ pstdin' = wired.pstdin
               /\ stream' = wired.stream
    ELSE UNCHANGED <<cmdio, stdio, pstdin, stream>>

\* cmd.start()
Start ==
    /\ Call
    /\ \E spawnOk \in BOOLEAN, ignores \in BOOLEAN :
          LET s == StartF(Handle, World, spawnOk, ignores)
          IN /\ SetHandle(s.h)
             /\ SetWorld(s.w)
             /\ Returned("start", s.thrown, s.thrown = "")
             /\ StartIO(s.w, stdout, stderr, FALSE)
    /\ UNCHANGED <<stdout, stderr, stdin, extraFiles>>
    /\ UNCHANGED <<source, reader, reads>>

\* cmd.run(timeout)
Run ==
    /\ Call
    /\ \E spawnOk \in BOOLEAN, ignores \in BOOLEAN, timeout \in Timeouts :
          LET s == StartF(Handle, World, spawnOk, ignores)
          IN /\ SetHandle(s.h)
             /\ IF s.thrown # ""
                THEN SetWorld(s.w)
                ELSE SetWorld(WaitW(s.w, s.h, "run", timeout, Absent))
             /\ Returned("run", s.thrown, s.thrown = "")
             /\ StartIO(s.w, stdout, stderr, FALSE)
    /\ UNCHANGED <<stdout, stderr, stdin, extraFiles>>
    /\ UNCHANGED <<source, reader, reads>>

\* cmd.output(encoding, timeout)
Output ==
    /\ Call
    /\ stdout' = "pipe"
    /\ stderr' = IF stderr = "null" THEN "pipe" ELSE stderr
    /\ \E spawnOk \in BOOLEAN, ignores \in BOOLEAN, timeout \in Timeouts :
          LET s == StartF(Handle, World, spawnOk, ignores)
              t == IF timeout = NoTimeout THEN <<0>> ELSE timeout
          IN /\ SetHandle(s.h)
             /\ IF s.thrown # ""
                THEN SetWorld(s.w)
                ELSE SetWorld(WaitW(s.w, s.h, "output", t, Absent))
             /\ Returned("output", s.thrown, s.thrown = "")
             /\ StartIO(s.w, "pipe", IF stderr = "null" THEN "pipe" ELSE stderr, TRUE)
    /\ UNCHANGED <<stdin, extraFiles>>
    /\ UNCHANGED <<source, reader, reads>>

\* cmd.wait(timeout, timeoutSignal)
Wait ==
    /\ Call
    /\ \E timeout \in Timeouts, sig \in AllSignals \cup {Absent} :
          SetWorld(WaitW(World, Handle, "wait", timeout, sig))
    /\ UNCHANGED ret
    /\ UNCHANGED <<process, promise, running, pid, exitCode, stdout, stderr>>
    /\ UNCHANGED ioVars
    /\ UNCHANGED readerVars

\* The effect of cmd.signal(sig, mode)
SignalOp(sig, mode) ==
    IF process = 0
    THEN /\ Returned("signal", NOT_STARTED_ERROR, FALSE)
         /\ UNCHANGED <<procs, futures, calls, sent>>
    ELSE LET s == SignalW(World, process, sig, mode, 0)
         IN /\ SetWorld(s.w)
            /\ Returned("signal", s.thrown, s.ret)

\* cmd.signal(sig, mode)
Signal ==
    /\ Call
    /\ \E sig \in AllSignals, mode \in Modes \cup {Absent} : SignalOp(sig, mode)
    /\ UNCHANGED <<process, promise, running, pid, exitCode, stdout, stderr>>
    /\ UNCHANGED ioVars
    /\ UNCHANGED readerVars

\* cmd.kill(sig, timeout, mode)
Kill ==
    /\ Call
    /\ \E sig \in AllSignals \cup {Absent}, timeout \in Timeouts,
          mode \in Modes \cup {Absent} :
          SetWorld(KillW(World, Handle, sig, timeout, mode, 0))
    /\ UNCHANGED ret
    /\ UNCHANGED <<process, promise, running, pid, exitCode, stdout, stderr>>
    /\ UNCHANGED ioVars
    /\ UNCHANGED readerVars

\* The timer of createTimeout fires for call i: _waitTimeout sets timeoutOccured
\* and runs the onTimeout handler of wait or of kill.
TimerFire ==
    /\ \E i \in DOMAIN calls :
          /\ calls[i].timer = "armed"
          /\ LET fired == [World EXCEPT !.calls[i].timer = "fired"]
             IN IF calls[i].op = "kill"
                THEN LET s == SignalW(fired, calls[i].proc, "SIGKILL", "standard", i)
                         cs == [s.w.calls EXCEPT ![i].fut = promise]
                     IN SetWorld([s.w EXCEPT !.calls = React(cs, s.w.futures, promise)])
                ELSE SetWorld(KillW(fired, Handle, calls[i].sig, NoTimeout, Absent, i))
    /\ UNCHANGED <<process, promise, running, pid, exitCode, stdout, stderr, ret, ops>>
    /\ UNCHANGED ioVars
    /\ UNCHANGED readerVars

\* The child process terminates by itself with an exit status.
ProcExit ==
    /\ \E p \in DOMAIN procs, code \in ExitCodes :
          /\ procs[p].st = "alive"
          /\ procs' = [procs EXCEPT ![p].st = "zombie", ![p].termCode = code]
    /\ UNCHANGED <<process, promise, running, pid, exitCode, stdout, stderr,
                   futures, calls, sent, ret, ops>>
    /\ UNCHANGED ioVars
    /\ UNCHANGED readerVars

\* The child process changes its credentials (a set-uid program): from now on
\* the platform refuses to signal it.
DropPerm ==
    /\ \E p \in DOMAIN procs :
          /\ procs[p].st = "alive"
          /\ procs[p].perm
          /\ procs' = [procs EXCEPT ![p].perm = FALSE]
    /\ UNCHANGED <<process, promise, running, pid, exitCode, stdout, stderr,
                   futures, calls, sent, ret, ops>>
    /\ UNCHANGED ioVars
    /\ UNCHANGED readerVars

\* The child process is terminated by a signal that another process sent.
ProcKilled ==
    /\ \E p \in DOMAIN procs, sig \in Signals \cup {ForeignSignal} :
          /\ procs[p].st = "alive"
          /\ procs' = [procs EXCEPT ![p].st = "zombie", ![p].termSig = sig]
    /\ UNCHANGED <<process, promise, running, pid, exitCode, stdout, stderr,
                   futures, calls, sent, ret, ops>>
    /\ UNCHANGED ioVars
    /\ UNCHANGED readerVars

\* The child process forks: spawn() made it the leader of its own process group
\* (detached), and the processes it forks are members of that group.
Fork ==
    /\ \E p \in DOMAIN procs :
          /\ procs[p].st = "alive"
          /\ ~procs[p].kids
          /\ procs' = [procs EXCEPT ![p].kids = TRUE]
    /\ UNCHANGED <<process, promise, running, pid, exitCode, stdout, stderr,
                   futures, calls, sent, ret, ops>>
    /\ UNCHANGED ioVars
    /\ UNCHANGED readerVars

\* The ChildProcess emits 'exit': the listener attached by start() runs.
OnExit ==
    /\ \E p \in DOMAIN procs :
          /\ procs[p].st = "zombie"
          /\ LET reaped == [World EXCEPT !.procs[p] = Reaped(procs[p])]
                 s == OnExitF(Handle, reaped, procs[p].termCode, procs[p].termSig)
                 flushed == flushStdio(stdio[p])
                 i == OutputCallOf(calls, procs[p].fut)
             IN /\ SetHandle(s.h)
                /\ SetWorld(s.w)
                /\ stdio' = IF p \notin DOMAIN stdio THEN stdio
                             ELSE [stdio EXCEPT ![p] =
                               IF i = 0 \/ calls[i].res.st # "pending"
                               THEN flushed
                               ELSE [flushed EXCEPT
                                       !.value = OutputValue(flushed, s.w.calls[i].res)]]
    /\ UNCHANGED <<stdout, stderr, ret, ops, stdin, extraFiles, cmdio, pstdin>>
    /\ UNCHANGED readerVars

Fds == {"stdout", "stderr"}

\* The child process writes one more byte to its stdout or stderr pipe.
ChildWrite ==
    /\ \E p \in DOMAIN stdio, fd \in Fds :
          /\ procs[p].st = "alive"
          /\ stdio[p].open[fd]
          /\ Len(stdio[p].wrote[fd]) < MaxBytes
          /\ LET b == (IF fd = "stdout" THEN 0 ELSE 10) + Len(stdio[p].wrote[fd]) + 1
             IN stdio' = [stdio EXCEPT ![p].wrote[fd] = Append(@, b),
                                       ![p].pipe[fd] = Append(@, b)]
    /\ UNCHANGED <<process, promise, running, pid, exitCode, stdout, stderr,
                   procs, futures, calls, sent, ret, ops>>
    /\ UNCHANGED <<stdin, extraFiles, cmdio, pstdin>>
    /\ UNCHANGED readerVars

\* The parent reads what is in the pipe of a descriptor and pushes it into
\* p.stdout / p.stderr as one chunk.
PipeRead ==
    /\ \E p \in DOMAIN stdio, fd \in Fds :
          /\ stdio[p].pipe[fd] # << >>
          /\ IsReadable(stdio[p][fd])
          /\ LET io == stdio[p]
                 r == AddChunk(io[fd], io.pipe[fd])
             IN stdio' = [stdio EXCEPT ![p] =
                    OnChunks([io EXCEPT ![fd] = r.st, !.pipe[fd] = << >>], fd, r.emitted)]
    /\ UNCHANGED <<process, promise, running, pid, exitCode, stdout, stderr,
                   procs, futures, calls, sent, ret, ops>>
    /\ UNCHANGED <<stdin, extraFiles, cmdio, pstdin>>
    /\ UNCHANGED readerVars

Next ==
    \/ Start
    \/ Run
    \/ Output
    \/ Wait
    \/ Signal
    \/ Kill
    \/ TimerFire
    \/ ProcExit
    \/ DropPerm
    \/ OnExit

Spec == Init /\ [][Next]_vars

\* The handle with a child that forks processes of its own.
NextGroup ==
    \/ Next
    \/ Fork

SpecGroup == Init /\ [][NextGroup]_vars

\* The handle started and waited on, with a child that ends by itself, by the
\* kill sequence of a wait, or by a signal from elsewhere.
NextExit ==
    \/ Start
    \/ Run
    \/ Output
    \/ Wait
    \/ TimerFire
    \/ ProcExit
    \/ ProcKilled
    \/ OnExit

SpecExit == Init /\ [][NextExit]_vars

\* One output() run on a handle whose stderr is unset or inherited, with a
\* child that writes to the descriptors it was given.
InitOutput ==
    /\ InitCmd
    /\ stdin = "null"
    /\ stdout = "null"
    /\ stderr \in {"null", "inherit"}
    /\ extraFiles = << >>
    /\ InitNoReader

\* output() on a handle that has not had a process yet
OutputFresh == Output /\ process = 0

NextOutput ==
    \/ OutputFresh
    \/ TimerFire
    \/ ChildWrite
    \/ PipeRead
    \/ ProcExit
    \/ ProcKilled
    \/ OnExit

SpecOutput == InitOutput /\ [][NextOutput]_vars

\* start() on a handle with any configuration of its descriptors.
InitPipes ==
    /\ InitCmd
    /\ stdin \in StdinPolicies
    /\ stdout \in OutPolicies
    /\ stderr \in OutPolicies
    /\ extraFiles \in UNION {[1..n -> ExtraPolicies] : n \in 0..MaxExtra}
    /\ InitNoReader

NextPipes ==
    \/ Start
    \/ ProcExit
    \/ OnExit

SpecPipes == InitPipes /\ [][NextPipes]_vars

\* A Reader over a stream with a source of up to MaxSrc bytes: createReader
\* has paused the stream and attached its 'end' listener.
InitReader ==
    /\ InitCmd
    /\ stdin = "null"
    /\ stdout = "null"
    /\ stderr = "null"
    /\ extraFiles = << >>
    /\ \E n \in 0..MaxSrc :
          source = [size |-> n, left |-> SourceBytes(n), eof |-> FALSE]
    /\ stream = Pause(NewReadable)
    /\ reader = [made |-> TRUE, ended |-> FALSE, closed |-> FALSE, closes |-> 0]
    /\ reads = << >>

CmdVars == <<process, promise, running, pid, exitCode, stdout, stderr,
             procs, futures, calls, sent, ret, ops>>

SetReader(R, i) ==
    /\ stream' = R.stream
    /\ reader' = R.reader
    /\ reads' = IF i = 0 THEN reads
                 ELSE IF i > Len(reads) THEN Append(reads, R.c)
                 ELSE [reads EXCEPT ![i] = R.c]

\* reader.read(size) or reader.read(): the caller awaits each read before it
\* makes the next one, unless the reader has ended meanwhile.
ReadCall ==
    /\ reader.made
    /\ Len(reads) < MaxReads
    /\ Waiting(reads) = 0 \/ reader.ended
    /\ \E size \in (1..MaxSrc) \cup {MAX_SAFE_INTEGER} :
          LET R == ReadSync(stream, reader, size, NewRead(size, reader))
          IN SetReader(Quiesce(R, R.stream.buf # << >>), Len(reads) + 1)
    /\ UNCHANGED source
    /\ UNCHANGED CmdVars
    /\ UNCHANGED ioVars

\* The stream with the read call that may be suspended on it
Suspended(st) ==
    [stream |-> st, reader |-> reader,
     c |-> IF Waiting(reads) = 0 THEN NewRead(0, reader) ELSE reads[Waiting(reads)]]

\* The source delivers its next k bytes: the stream buffers the chunk and emits
\* 'readable'.
Push ==
    /\ reader.made
    /\ ~stream.destroyed
    /\ \E k \in 1..Len(source.left) :
          /\ source' = [source EXCEPT !.left = SubSeq(@, k + 1, Len(@))]
          /\ SetReader(Quiesce(Suspended(AddChunk(stream, SubSeq(source.left, 1, k)).st),
                                TRUE),
                       Waiting(reads))
    /\ UNCHANGED CmdVars
    /\ UNCHANGED ioVars

\* The source is exhausted and signals end-of-file: the stream emits 'readable'.
PushEOF ==
    /\ reader.made
    /\ ~stream.destroyed
    /\ source.left = << >>
    /\ ~source.eof
    /\ source' = [source EXCEPT !.eof = TRUE]
    /\ SetReader(Quiesce(Suspended([stream EXCEPT !.ended = TRUE]), TRUE),
                 Waiting(reads))
    /\ UNCHANGED CmdVars
    /\ UNCHANGED ioVars

\* reader.close()
Close ==
    /\ reader.made
    /\ reader.closes < MaxCloses
    /\ IF reader.ended \/ stream.destroyed
       THEN /\ reader' = [reader EXCEPT !.closes = @ + 1]
            /\ UNCHANGED stream
       ELSE /\ stream' = Destroy(stream)
            /\ reader' = [reader EXCEPT !.ended = TRUE, !.closed = TRUE,
                                         !.closes = @ + 1]
    /\ UNCHANGED <<source, reads>>
    /\ UNCHANGED CmdVars
    /\ UNCHANGED ioVars

NextReader ==
    \/ ReadCall
    \/ Push
    \/ PushEOF
    \/ Close

SpecReader == InitReader /\ [][NextReader]_vars

\* What Cmd.stdin is fed from: nothing, a Buffer of up to MaxSrc bytes, or a
\* Reader that createReader made over a stream with a source of up to MaxSrc
\* bytes.
StdinKinds == {"null", "buffer", "reader", "fdreader"}

InitStdin ==
    /\ InitCmd
    /\ stdin \in StdinKinds
    /\ stdout = "null"
    /\ stderr = "null"
    /\ extraFiles = << >>
    /\ \E n \in 0..MaxSrc :
          /\ stdin = "null" => n = 0
          /\ source = [size |-> n, left |-> SourceBytes(n), eof |-> FALSE]
    /\ stream = IF stdin \in {"reader", "fdreader"} THEN Pause(NewReadable)
                ELSE NewReadable
    /\ reader = [made |-> stdin \in {"reader", "fdreader"}, ended |-> FALSE,
                 closed |-> FALSE, closes |-> 0]
    /\ reads = << >>

\* The source of the Reader delivers its next k bytes to the flowing stream,
\* whose 'data' listener (of pipe()) writes them to p.stdin.
StdinPush ==
    /\ pstdin.how = "pumped"
    /\ reader.made
    /\ stream.flowing = "true"
    /\ ~stream.destroyed
    /\ ~pstdin.closed
    /\ procs[pstdin.proc].st = "alive"
    /\ \E k \in 1..Len(source.left) :
          LET r == AddChunk(stream, SubSeq(source.left, 1, k))
          IN /\ source' = [source EXCEPT !.left = SubSeq(@, k + 1, Len(@))]
             /\ stream' = r.st
             /\ pstdin' = [pstdin EXCEPT !.pipe = @ \o Concat(r.emitted)]
    /\ UNCHANGED <<reader, reads>>
    /\ UNCHANGED CmdVars
    /\ UNCHANGED <<stdin, extraFiles, cmdio, stdio>>

\* The source of the Reader is exhausted: the flowing stream emits 'end', the
\* listener of the StreamReader runs, and the listener of pipe() ends p.stdin.
StdinEOF ==
    /\ pstdin.how = "pumped"
    /\ reader.made
    /\ stream.flowing = "true"
    /\ ~stream.destroyed
    /\ stream.buf = << >>
    /\ source.left = << >>
    /\ ~source.eof
    /\ source' = [source EXCEPT !.eof = TRUE]
    /\ LET e == EmitEnd(EndReadable([stream EXCEPT !.ended = TRUE]), reader)
       IN /\ stream' = e.stream
          /\ reader' = e.reader
    /\ pstdin' = [pstdin EXCEPT !.closed = TRUE]
    /\ UNCHANGED reads
    /\ UNCHANGED CmdVars
    /\ UNCHANGED <<stdin, extraFiles, cmdio, stdio>>

\* The process reads from its descriptor 0: the next k bytes of the pipe, or
\* end-of-file when nothing is left and the other end is closed.
ChildRead ==
    /\ pstdin.how \in {"pumped", "ignore"}
    /\ procs[pstdin.proc].st = "alive"
    /\ ~pstdin.eof
    /\ \/ \E k \in 1..Len(pstdin.pipe) :
             pstdin' = [pstdin EXCEPT !.got = @ \o SubSeq(pstdin.pipe, 1, k),
                                      !.pipe = SubSeq(@, k + 1, Len(@))]
       \/ /\ pstdin.pipe = << >>
          /\ pstdin.closed
          /\ pstdin' = [pstdin EXCEPT !.eof = TRUE]
    /\ UNCHANGED CmdVars
    /\ UNCHANGED <<stdin, extraFiles, cmdio, stdio>>
    /\ UNCHANGED readerVars

\* The first start() that spawns a process: a Reader feeds one process only.
StartFirst == Start /\ procs = << >>

NextStdin ==
    \/ StartFirst
    \/ StdinPush
    \/ StdinEOF
    \/ ChildRead
    \/ ProcExit
    \/ OnExit

SpecStdin == InitStdin /\ [][NextStdin]_vars

----------------------------------------------------------------------------
(* Properties *)

Live == {p \in DOMAIN procs : procs[p].st # "reaped"}
UserCall(i) == calls[i].parent = 0
WaitLike(i) == calls[i].op \in {"run", "wait", "output"}

\* C1: a handle has at most one live OS process. A process is spawned only
\* when the handle is not running, the handle is running exactly while the
\* process it spawned last has not been seen to exit, and it leaves the
\* running state only in the step that observes the exit of that process.
C1_OneLiveProcess ==
    /\ [](/\ Cardinality(Live) <= 1
          /\ running <=> Live # {}
          /\ running => process = Len(procs) /\ Live = {process})
    /\ [][/\ Len(procs') > Len(procs) => ~running
          /\ running /\ ~running' =>
                /\ procs[Len(procs)].st # "reaped"
                /\ procs'[Len(procs)].st = "reaped"]_vars

\* A second process runs after the first one has exited.
C1_Witness ==
    /\ Len(procs) = 2
    /\ procs[1].st = "reaped"
    /\ procs[2].st = "alive"
    /\ running

\* C2: start() on a running handle fails with AlreadyRunning, spawns nothing
\* and changes neither the handle (running flag, pid, process record, exit
\* code, promise) nor any promise or pending call.
C2_StartWhileRunning ==
    [][(Start /\ running) =>
          /\ ret'.err = ALREADY_RUNNING
          /\ UNCHANGED <<process, promise, running, pid, exitCode,
                         procs, futures, calls, sent>>]_vars

\* start() has failed with AlreadyRunning while a wait is pending on the
\* promise of the running process.
C2_Witness ==
    /\ ret.op = "start"
    /\ ret.err = ALREADY_RUNNING
    /\ running
    /\ \E i \in DOMAIN calls :
          WaitLike(i) /\ calls[i].fut = promise /\ calls[i].res.st = "pending"

\* C3: a completion promise settles at most once (exit, 'error' notification
\* and spawn failure never both take effect), and the first settlement is
\* the outcome every wait on that promise observes.
C3_SettlesOnce ==
    /\ [](\A i \in DOMAIN calls :
            /\ (WaitLike(i) /\ calls[i].via = "promise")
                  => calls[i].res = Finish(calls[i], futures[calls[i].fut])
            /\ (WaitLike(i) /\ calls[i].via = "timeout" /\ calls[i].res.st = "resolved")
                  => calls[i].res = futures[calls[i].fut])
    /\ [][\A k \in DOMAIN futures :
            futures[k].st # "pending" => futures'[k] = futures[k]]_vars

\* The process exited after an 'error' notification had rejected the promise
\* of its run, and a wait on that promise has seen the rejection.
C3_Witness ==
    \E p \in DOMAIN procs, i \in DOMAIN calls :
        /\ procs[p].st = "reaped"
        /\ futures[procs[p].fut] = Rejected(KILL_EPERM)
        /\ calls[i].fut = procs[p].fut
        /\ calls[i].via = "promise"
        /\ calls[i].res = Rejected(KILL_EPERM)

\* C4: wait on a handle that was never started fails with NotStarted and
\* does not hang, whatever the timeout argument.
C4_WaitBeforeStart ==
    \A i \in DOMAIN calls :
        (calls[i].op = "wait" /\ calls[i].fut = 1)
            => calls[i].res = Rejected(NOT_STARTED_ERROR)

\* The exit code _onexit records for process p once its exit has been seen.
exitCodeOf(p) == ExitStatus(procs[p].termCode, procs[p].termSig)

\* The process of the run whose completion promise is k (0: spawn failed, or
\* the promise of the constructor).
ProcOf(k) ==
    IF \E p \in DOMAIN procs : procs[p].fut = k
    THEN CHOOSE p \in DOMAIN procs : procs[p].fut = k
    ELSE 0

SentBy(i) == {n \in DOMAIN sent : sent[n].by = i}
Children(i) == {j \in DOMAIN calls : calls[j].parent = i}

\* C5: wait(timeout > 0) on a running handle. If the exit of the process is
\* observed before the timer fires, the call resolves with the exit code and
\* sends no signal. Otherwise the kill sequence is run (the configured signal,
\* default SIGTERM, to the process group first; SIGKILL to the process when
\* the escalation timer fires) and, once the process has exited, the call has
\* failed with Timeout.
C5_WaitTimeout ==
    \A i \in DOMAIN calls :
        (UserCall(i) /\ WaitLike(i) /\ calls[i].via = "timeout" /\ calls[i].running) =>
            LET c == calls[i]
                p == ProcOf(c.fut)
            IN /\ (c.timer # "fired" /\ procs[p].st = "reaped") =>
                      /\ c.res = Finish(c, Resolved(exitCodeOf(p)))
                      /\ Children(i) = {}
               /\ c.timer = "fired" =>
                      /\ \E j \in Children(i) :
                            /\ calls[j].sig = (IF c.sig = Absent THEN "SIGTERM" ELSE c.sig)
                            /\ \E n \in SentBy(j) :
                                  /\ sent[n].sig = calls[j].sig
                                  /\ sent[n].to = -PidOf(p)
                                  /\ \A m \in SentBy(j) : n <= m
                            /\ calls[j].timer = "fired" =>
                                  \E n \in SentBy(j) :
                                      sent[n].sig = "SIGKILL" /\ sent[n].to = PidOf(p)
                      /\ procs[p].st = "reaped" => c.res = Rejected(TIMEOUT)

\* C6: for one wait(timeout) call, once the timer has fired the call can only
\* fail with Timeout, whatever exit code the process produces while the kill
\* sequence is waiting; and the promise the call returned, like every promise
\* returned to the caller, never changes once it has settled.
C6_TimeoutExcludesExit ==
    /\ [](\A i \in DOMAIN calls :
            (WaitLike(i) /\ calls[i].timer = "fired")
                => calls[i].res \in {Pending, Rejected(TIMEOUT)})
    /\ [][\A i \in DOMAIN calls :
            calls[i].res.st # "pending" => calls'[i].res = calls[i].res]_vars

\* A wait has failed with Timeout although the process then ended by itself
\* with an exit status while the kill sequence was waiting.
C6_Witness ==
    \E i \in DOMAIN calls :
        /\ WaitLike(i)
        /\ calls[i].timer = "fired"
        /\ calls[i].res = Rejected(TIMEOUT)
        /\ ProcOf(calls[i].fut) # 0
        /\ procs[ProcOf(calls[i].fut)].st = "reaped"
        /\ procs[ProcOf(calls[i].fut)].termSig = ""
        /\ futures[calls[i].fut].st = "resolved"

\* C7: when the completion promise of a start is rejected (spawn failure or
\* an 'error' notification), every run, wait and output call built on it fails
\* with that rejection, with a positive timeout as well as without, unless
\* its timeout had already fired.
C7_RejectionPropagates ==
    \A i \in DOMAIN calls :
        (/\ UserCall(i) /\ WaitLike(i)
         /\ calls[i].fut > 1
         /\ calls[i].timer # "fired"
         /\ futures[calls[i].fut].st = "rejected")
            => calls[i].res = futures[calls[i].fut]

\* C8: kill(sig, timeout > 0) on a running process that ignores sig. When the
\* timer fires SIGKILL is sent to the process itself, not to its group, and
\* once the process has exited the call has resolved with the value of the
\* completion promise, which is the recorded exit code of the handle and is
\* the negated number of the signal that terminated the process.
C8_KillEscalates ==
    \A i \in DOMAIN calls :
        (/\ UserCall(i) /\ calls[i].op = "kill"
         /\ calls[i].via = "timeout" /\ calls[i].running
         /\ calls[i].sig # "SIGKILL") =>
            LET c == calls[i]
                p == c.proc
            IN /\ c.timer = "fired" =>
                      /\ \E n \in SentBy(i) : sent[n].sig = "SIGKILL" /\ sent[n].to = PidOf(p)
                      /\ \A n \in SentBy(i) : sent[n].sig = "SIGKILL" => sent[n].to = PidOf(p)
               /\ (c.timer = "fired" /\ procs[p].st = "reaped") =>
                      /\ c.res = Resolved(exitCodeOf(p))
                      /\ futures[c.fut] = c.res
                      /\ promise = c.fut => exitCode = c.res.code
                      /\ procs[p].termSig # "" => c.res.code < 0

\* C9: kill on a handle whose process has exited returns at once, without
\* raising, the recorded exit code of that run: the value wait resolved with,
\* -N when the process was terminated by signal N.
C9_KillAfterExit ==
    \A i \in DOMAIN calls :
        (/\ UserCall(i) /\ calls[i].op = "kill"
         /\ calls[i].proc # 0 /\ ~calls[i].running) =>
            /\ calls[i].via = "direct"
            /\ calls[i].res = Resolved(exitCodeOf(calls[i].proc))

\* C10 as claimed: signal and kill fail with NotStarted exactly when start()
\* has never been called on the handle.
C10_NotStartedIffNeverStarted ==
    /\ ret.op = "signal" => (ret.err = NOT_STARTED_ERROR <=> Len(futures) = 1)
    /\ \A i \in DOMAIN calls :
          calls[i].op = "kill" =>
              (calls[i].res = Rejected(NOT_STARTED_ERROR) <=> calls[i].fut = 1)

\* C10 as the code has it: signal and kill fail with NotStarted exactly when
\* the handle has no process record, which is when start() has never been
\* called or the latest start() failed to spawn. After a start() that
\* spawned, they never fail with NotStarted, also when the process has exited.
C10_NotStartedIffNoProcess ==
    /\ ret.op = "signal" =>
          (ret.err = NOT_STARTED_ERROR
              <=> futures[promise].err \in {NOT_STARTED_ERROR, SPAWN_FAILURE})
    /\ \A i \in DOMAIN calls :
          calls[i].op = "kill" =>
              (calls[i].res = Rejected(NOT_STARTED_ERROR)
                  <=> futures[calls[i].fut].err \in {NOT_STARTED_ERROR, SPAWN_FAILURE})

\* signal() has failed with NotStarted on a handle whose start() was called
\* and failed to spawn.
C10_Witness ==
    /\ ret.op = "signal"
    /\ ret.err = NOT_STARTED_ERROR
    /\ futures[promise] = Rejected(SPAWN_FAILURE)

\* C11: on a started handle whose process is not running, signal(sig, mode)
\* with a supported signal returns false and reaches no process, in 'standard'
\* and in 'group' mode; and signal returns true only when the platform
\* accepted a delivery made by this call.
C11_SignalNotRunning ==
    [][Signal =>
          /\ (process # 0 /\ ~running /\ ret'.err = "") =>
                /\ ret'.val = FALSE
                /\ procs' = procs
                /\ \A n \in DOMAIN sent' : n > Len(sent) => ~sent'[n].ok
          /\ ret'.val = TRUE =>
                \E n \in DOMAIN sent' : n > Len(sent) /\ sent'[n].ok]_vars

\* C12: a signal the platform does not support surfaces to the caller as a
\* raised failure. On a started handle, signal raises it in both modes, the
\* promise of kill is rejected with it, and a wait(timeout, signal) whose
\* timeout has fired, and which has sent the kill sequence with that signal,
\* is rejected with it.
C12_UnsupportedSignalRaises ==
    /\ [](\A i \in DOMAIN calls :
            /\ (calls[i].op = "kill" /\ calls[i].sig = Unsupported /\ calls[i].proc # 0)
                  => calls[i].res = Rejected(UNKNOWN_SIGNAL)
            /\ (WaitLike(i) /\ calls[i].sig = Unsupported /\ calls[i].timer = "fired")
                  => calls[i].res = Rejected(UNKNOWN_SIGNAL))
    /\ [][\A mode \in Modes \cup {Absent} :
            (Call /\ process # 0 /\ SignalOp(Unsupported, mode))
                => ret'.err = UNKNOWN_SIGNAL]_vars

C14_OutputReturnsStdout ==
    \A p \in DOMAIN stdio :
        stdio[p].value.kind = "stdout" => stdio[p].value.bytes = stdio[p].wrote.stdout

NonZeroExit(i) == calls[i].res.st = "rejected" /\ calls[i].res.err = NON_ZERO_EXIT

C16_NullIffNoPipe ==
    (ret.op = "start" /\ ret.err = "") =>
        LET piped == {fd \in {"stdin", "stdout", "stderr"} :
                        (CASE fd = "stdin" -> stdin
                           [] fd = "stdout" -> stdout
                           [] OTHER -> stderr) = "pipe"}
            extraPiped == {n \in DOMAIN extraFiles : extraFiles[n] = "pipe"}
        IN /\ cmdio.isNull <=> (piped = {} /\ extraPiped = {})
           /\ ~cmdio.isNull =>
                 /\ \A fd \in {"stdin", "stdout", "stderr"} :
                       cmdio[fd] # "null" <=> fd \in piped
                 /\ DOMAIN cmdio.extraFiles = DOMAIN extraFiles
                 /\ \A n \in DOMAIN extraFiles :
                       cmdio.extraFiles[n] # "null" <=> n \in extraPiped
           /\ stdin \in {"buffer", "reader"} => cmdio.stdin = "null"

\* C17: a handle that is not running can be started again (a call that leaves
\* no promise to the caller and throws AlreadyRunning is a start, run or output
\* on a running handle), and each run is on its own: a start that spawns makes a new process record and a new promise
\* and resets the exit code to -1, where it stays while that process runs; no
\* two processes share a promise; a settled promise keeps its value for ever;
\* and the promise of a run resolves only with the exit code of the process of
\* that run, after that process has exited.
C17_IndependentRuns ==
    /\ [](/\ running => exitCode = NoExitCode
          /\ \A p, q \in DOMAIN procs : p # q => procs[p].fut # procs[q].fut
          /\ \A p \in DOMAIN procs :
                futures[procs[p].fut].st = "resolved" =>
                    /\ procs[p].st = "reaped"
                    /\ futures[procs[p].fut].code = exitCodeOf(p))
    /\ [][/\ \A k \in DOMAIN futures :
                futures[k].st # "pending" => futures'[k] = futures[k]
          /\ (ops' = ops + 1 /\ calls' = calls /\ ret'.err = ALREADY_RUNNING) => running
          /\ Len(procs') > Len(procs) =>
                /\ ~running /\ running'
                /\ process' = Len(procs) + 1
                /\ promise' = Len(futures) + 1
                /\ procs'[process'].fut = promise'
                /\ futures'[promise'] = Pending
                /\ exitCode' = NoExitCode]_vars

\* Two runs of one handle have ended, the first with exit code 1 and the second
\* with exit code 0, and each promise holds the exit code of its own run.
C17_Witness ==
    /\ Len(procs) = 2
    /\ procs[1].st = "reaped" /\ procs[2].st = "reaped"
    /\ procs[1].fut # procs[2].fut
    /\ futures[procs[1].fut] = Resolved(1)
    /\ futures[procs[2].fut] = Resolved(0)
    /\ exitCode = 0
    /\ ~running

\* What the reads before read i returned, joined
ReadBefore(i) == Concat([j \in 1..(i - 1) |-> reads[j].out])

\* C18: on a reader that close() has not closed, a read that has returned was
\* given exactly the next min(size, bytes left before the end of the source)
\* bytes of the source, following what the reads before it returned (a read
\* without a size: all bytes left); and no byte is lost or duplicated: what the
\* reads returned, what a suspended read holds, what the stream buffers and
\* what the source has yet to deliver make up the source, in order.
C18_ReadsAreConsecutiveSegments ==
    /\ \A i \in DOMAIN reads :
          (reads[i].st = "done" /\ ~reads[i].closed) =>
              LET c == Len(ReadBefore(i))
                  n == reads[i].size
                  upto == IF n > source.size - c THEN source.size ELSE c + n
              IN /\ reads[i].out = SubSeq(SourceBytes(source.size), c + 1, upto)
                 /\ Len(reads[i].out) <= n
    /\ ~reader.closed =>
          ReadBefore(Len(reads) + 1)
             \o (IF Waiting(reads) = 0 THEN << >>
                 ELSE Concat(reads[Waiting(reads)].buffers))
             \o Concat(stream.buf)
             \o source.left
          = SourceBytes(source.size)

\* Two reads of size 2 on a source of three bytes: the first returned bytes 1
\* and 2, the second byte 3 alone because the source ended.
C18_Witness ==
    /\ source.size = 3
    /\ ~reader.closed
    /\ Len(reads) = 2
    /\ reads[1].size = 2 /\ reads[1].st = "done" /\ reads[1].out = <<1, 2>>
    /\ reads[2].size = 2 /\ reads[2].st = "done" /\ reads[2].out = <<3>>

\* C19 as stated: a read with a size is suspended only while no byte at all is
\* available: a suspended read on a reader that has not been closed holds no
\* byte.
C19_ReadWaitsForOneByte ==
    \A i \in DOMAIN reads :
        (reads[i].st = "waiting" /\ ~reader.closed) => reads[i].buffersLen = 0

\* C19, amended: a read with size n is suspended exactly while it has been
\* given fewer than n bytes and the source has not ended: a suspended read holds
\* fewer than n bytes, with nothing left in the buffer of the stream and the
\* end of the source not yet signalled, and a read that has returned was given
\* n bytes unless the source had ended.
C19_ReadWaitsForSizeBytes ==
    \A i \in DOMAIN reads :
        /\ (reads[i].st = "waiting" /\ ~reader.closed) =>
              /\ reads[i].buffersLen < reads[i].size
              /\ stream.buf = << >>
              /\ ~source.eof
        /\ (reads[i].st = "done" /\ ~reads[i].closed) =>
              (Len(reads[i].out) = reads[i].size \/ source.eof)

\* A read of size 2 is suspended holding the one byte that has arrived, on a
\* source that has more to deliver.
C19_Witness ==
    \E i \in DOMAIN reads :
        /\ reads[i].st = "waiting"
        /\ reads[i].size = 2
        /\ reads[i].buffers = <<(<<1>>)>>
        /\ ~reader.closed
        /\ source.left # << >>

\* C20: once the reader has ended, by 'end' of the stream or by close(), the
\* stream is destroyed (isClosed() is true); a read called from then on, with
\* or without a size, has returned at once with zero bytes; and a close() on a
\* reader that has ended or whose stream is destroyed changes neither the
\* stream, nor the reader, nor any read.
C20_EndedReaderIsClosed ==
    /\ [](/\ reader.ended => stream.destroyed
          /\ \A i \in DOMAIN reads :
                reads[i].ended => (reads[i].st = "done" /\ reads[i].out = << >>))
    /\ [][(reader'.closes = reader.closes + 1 /\ (reader.ended \/ stream.destroyed)) =>
              /\ stream' = stream
              /\ reads' = reads
              /\ source' = source
              /\ reader'.ended = reader.ended
              /\ reader'.closed = reader.closed]_vars

\* The reader reached the end of a source while bytes of it had been read,
\* close() was called after that, and a read with a size called on the ended
\* reader returned zero bytes.
C20_Witness ==
    /\ stream.endEmitted
    /\ reader.ended /\ ~reader.closed /\ reader.closes = 1
    /\ stream.destroyed
    /\ Len(reads) = 2
    /\ reads[1].out # << >>
    /\ reads[2].ended /\ reads[2].size = 1
    /\ reads[2].st = "done" /\ reads[2].out = << >>

\* C21: a read that was suspended when close() was called has returned once
\* the close has been made: no read stays suspended on a reader that close()
\* has closed.
C21_CloseCompletesRead ==
    \A i \in DOMAIN reads :
        reader.closed => reads[i].st = "done"

\* C22: the process receives on its standard input exactly the bytes of the
\* configured source, in order, and end-of-input only after all of them; a
\* Buffer and a Reader over a stream without a descriptor are pumped into a
\* pipe, a Reader over a descriptor-like stream is attached directly, and an
\* absent stdin reads as end-of-input with no bytes.
C22_StdinDelivered ==
    pstdin.how # "none" =>
        /\ \E n \in 0..Len(SourceBytes(source.size)) :
              pstdin.got = SubSeq(SourceBytes(source.size), 1, n)
        /\ pstdin.eof => pstdin.got = SourceBytes(source.size)
        /\ stdin \in {"buffer", "reader"} => pstdin.how = "pumped"
        /\ stdin = "fdreader" => pstdin.how = "attached"
        /\ stdin = "null" => pstdin.how = "ignore" /\ pstdin.got = << >>

\* C22, the part about the bytes alone: whatever the kind of stdin, what the
\* process has read is a prefix of the source, and it is all of the source once
\* the process has read end-of-input.
C22_BytesInOrder ==
    pstdin.how # "none" =>
        /\ \E n \in 0..Len(SourceBytes(source.size)) :
              pstdin.got = SubSeq(SourceBytes(source.size), 1, n)
        /\ pstdin.eof => pstdin.got = SourceBytes(source.size)

\* C23: when spawn() returns no pid, the call (start, run or output) throws
\* SpawnFailure; the promise that this start created is rejected with it; the
\* handle is not running, has no process record and pid 0 (so nothing stands
\* in the way of a later start); and a wait() without timeout made on that
\* promise fails with the spawn error.
C23_SpawnFailure ==
    /\ ret.err = SPAWN_FAILURE =>
          /\ ret.op \in {"start", "run", "output"}
          /\ promise = Len(futures)
          /\ futures[promise] = Rejected(SPAWN_FAILURE)
          /\ ~running
          /\ process = 0
          /\ pid = 0
    /\ \A k \in DOMAIN futures :
          futures[k].st = "rejected" /\ futures[k].err = SPAWN_FAILURE =>
              \A p \in DOMAIN procs : procs[p].fut # k
    /\ \A i \in DOMAIN calls :
          /\ calls[i].op = "wait"
          /\ calls[i].via = "promise"
          /\ futures[calls[i].fut] = Rejected(SPAWN_FAILURE)
          => calls[i].res = Rejected(SPAWN_FAILURE)

\* start() has failed to spawn, the handle has no process record, and a wait()
\* without timeout made after it has failed with the spawn error.
C23_Witness ==
    /\ ret.err = SPAWN_FAILURE
    /\ process = 0 /\ pid = 0 /\ ~running
    /\ \E i \in DOMAIN calls :
          /\ calls[i].op = "wait"
          /\ calls[i].via = "promise"
          /\ calls[i].fut = promise
          /\ calls[i].res = Rejected(SPAWN_FAILURE)

\* C24: a timer of wait(timeout) or kill(sig, timeout) is armed only while the
\* promise it was armed against is pending, and a promise is settled once the
\* exit of its process has been observed; so a timer fires only while its
\* promise is pending, which is the promise of the run in progress, and what
\* its handler sends goes to the process of that run, whose exit has not been
\* observed. A signal sent by a kill call, the kill of a wait timeout
\* included, goes to the process of the run the call was made in.
C24_TimersCleared ==
    /\ [](/\ \A i \in DOMAIN calls :
                calls[i].timer = "armed" => futures[calls[i].fut].st = "pending"
          /\ \A p \in DOMAIN procs :
                procs[p].st = "reaped" => futures[procs[p].fut].st # "pending"
          /\ \A n \in DOMAIN sent :
                sent[n].by # 0 =>
                    /\ procs[sent[n].proc].fut = calls[sent[n].by].fut
                    /\ calls[sent[n].by].parent # 0 =>
                          calls[calls[sent[n].by].parent].fut = calls[sent[n].by].fut)
    /\ [][\A i \in DOMAIN calls :
             (calls[i].timer = "armed" /\ calls'[i].timer = "fired") =>
                 /\ futures[calls[i].fut].st = "pending"
                 /\ calls[i].fut = promise
                 /\ running
                 /\ \A n \in DOMAIN sent' :
                       n > Len(sent) =>
                           /\ sent'[n].proc = process
                           /\ procs[process].st # "reaped"]_vars

\* The timer of a kill was cleared by the exit of its process, and a later run
\* of the handle has started: nothing was sent to the process of the later run.
C24_Witness ==
    /\ Len(procs) = 2
    /\ running
    /\ \E i \in DOMAIN calls :
          /\ calls[i].op = "kill"
          /\ calls[i].timer = "cleared"
          /\ calls[i].fut = procs[1].fut
    /\ \A n \in DOMAIN sent : sent[n].proc = 1

\* The initial delivery of kill call i was accepted.
Accepted(i) == \E n \in SentBy(i) : sent[n].sig = calls[i].sig /\ sent[n].ok

\* C25: every kill call on a handle with a process, whoever made it and
\* whatever other kill calls are in flight: it makes one accepted delivery of
\* sig at most; beyond its initial delivery it sends one more signal at most,
\* which is SIGKILL to the process itself, and only when the timeout is
\* positive, the initial delivery was accepted and the timer has fired, which
\* it does only before the exit of the process is observed; and a call whose
\* initial delivery was accepted and whose timer has not fired has resolved
\* with the exit code of the process once the exit has been observed.
C25_KillEscalatesOnce ==
    /\ [](\A i \in DOMAIN calls :
             (calls[i].op = "kill" /\ calls[i].proc # 0) =>
                 LET c == calls[i]
                     p == c.proc
                 IN /\ \A n \in SentBy(i) : sent[n].proc = p
                    /\ ~Accepted(i) => c.via = "direct" /\ c.timer = "none"
                    /\ Accepted(i) =>
                          /\ Cardinality(SentBy(i)) = IF c.timer = "fired" THEN 2 ELSE 1
                          /\ c.via = "promise" => c.timer = "none"
                          /\ (c.timer # "fired" /\ procs[p].st = "reaped") =>
                                c.res = Resolved(exitCodeOf(p)))
    /\ [][\A i \in DOMAIN calls :
             (calls[i].op = "kill" /\ SentBy(i)' # SentBy(i)) =>
                 /\ calls[i].via = "timeout"
                 /\ calls[i].timer = "armed" /\ calls'[i].timer = "fired"
                 /\ Accepted(i)
                 /\ procs[calls[i].proc].st # "reaped"
                 /\ \A n \in SentBy(i)' \ SentBy(i) :
                       sent'[n].sig = "SIGKILL" /\ sent'[n].to = PidOf(calls[i].proc)]_vars
\* C26: while the handle is running no operation changes the configured
\* descriptors of the process specification (stdin, stdout, stderr,
\* extraFiles; no operation of the handle assigns command, args, dir, env or
\* shell), and output() called on a running handle fails with AlreadyRunning
\* and leaves stdout and stderr as they were.
C26_SpecificationFrozen ==
    [][running =>
          /\ stdin' = stdin
          /\ stdout' = stdout
          /\ stderr' = stderr
          /\ extraFiles' = extraFiles
          /\ (ops' = ops + 1 /\ ret'.op = "output" /\ ret' # ret) =>
                ret'.err = ALREADY_RUNNING]_vars

\* The deliveries that a step has attempted
NewSent == {n \in DOMAIN sent' : n > Len(sent)}

\* C27: a signal(sig, mode) call on a handle with a process. In 'group' mode
\* its first attempt is at the process group of the handle's own process, the
\* target being minus the pid of that process with the pid above 0 (so never
\* -1), and a second attempt, at the process itself, is made exactly when the
\* first was refused. In any other mode its one attempt is at the process
\* itself. No call has more than one attempt accepted, and in every state each
\* attempt ever made, by signal or by kill, had for its target the pid of the
\* handle's process of that time or minus that pid.
C27_SignalTargeting ==
    /\ [](\A n \in DOMAIN sent :
             /\ sent[n].proc \in DOMAIN procs
             /\ sent[n].to \in {PidOf(sent[n].proc), -PidOf(sent[n].proc)}
             /\ sent[n].to # -1)
    /\ [][(ops' = ops + 1 /\ ret'.op = "signal" /\ process # 0) =>
             \A sig \in AllSignals, mode \in Modes \cup {Absent} :
                 SignalOp(sig, mode) =>
                     /\ ret'.err = "" => NewSent # {}
                     /\ \A n \in NewSent : sent'[n].proc = process /\ sent'[n].by = 0
                     /\ pid = PidOf(process) /\ pid > 0
                     /\ Cardinality({n \in NewSent : sent'[n].ok}) <= 1
                     /\ ret'.val = (\E n \in NewSent : sent'[n].ok)
                     /\ (mode = "group" /\ NewSent # {}) =>
                           /\ sent'[Len(sent) + 1].to = -pid
                           /\ Cardinality(NewSent) = IF sent'[Len(sent) + 1].ok THEN 1 ELSE 2
                           /\ \A n \in NewSent : n > Len(sent) + 1 => sent'[n].to = pid
                     /\ mode # "group" =>
                           /\ Cardinality(NewSent) <= 1
                           /\ \A n \in NewSent : sent'[n].to = pid]_vars

\* signal in 'group' mode on a handle whose process has exited: the group
\* refused the delivery, the process was tried next and refused it too, and
\* signal returned false.
C27_Witness ==
    /\ ret.op = "signal" /\ ret.err = "" /\ ~ret.val
    /\ process # 0 /\ ~running
    /\ Len(sent) = 2
    /\ sent[1].to = -PidOf(process) /\ ~sent[1].ok /\ sent[1].by = 0
    /\ sent[2].to = PidOf(process) /\ ~sent[2].ok /\ sent[2].by = 0

\* C28: once the promise of the latest start() has settled (resolved by the
\* exit, rejected by a spawn failure or by an 'error' notification of the
\* process) the handle is not running, and a start, run or output called
\* then does not fail with AlreadyRunning.
C28_SettledNotRunning ==
    /\ []((promise > 1 /\ futures[promise].st # "pending") => ~running)
    /\ [][(/\ promise > 1 /\ futures[promise].st # "pending"
           /\ ops' = ops + 1 /\ ret' # ret
           /\ ret'.op \in {"start", "run", "output"})
              => ret'.err # ALREADY_RUNNING]_vars

====
